---------------------------- MODULE Spec2Model ----------------------------
(***************************************************************************)
(* tap-appmetrica: the time-windowed incremental sync of the events stream *)
(* (AppmetricaStream.request_records), its retrying HTTP call, the CSV row *)
(* filter of parse_response and the tap's configuration check.             *)
(*                                                                         *)
(* Time is counted in ticks.  A formatted timestamp ("%Y-%m-%d %H:%M:%S")  *)
(* carries whole seconds only, a datetime (start_date, utc_now()) carries  *)
(* a sub-second part: SecTicks ticks make a second, SecsPerDay seconds a   *)
(* day (a scale model of 10^6 microseconds and 86400 seconds).             *)
(*                                                                         *)
(* The stream state (bookmark, progress markers) is kept by the singer_sdk *)
(* base class RESTStream; its calls are modelled at the lines of the       *)
(* source that make them.                                                  *)
(***************************************************************************)
EXTENDS Integers, Sequences, FiniteSets, TLC

\* ------------------------------------------------------------------ bounds
MaxTime == 12
MaxRows == 2
MaxRequests == 4
MaxChunkDays == 2
MaxStartTick == 1
SecTicks == 2
SecsPerDay == 2

DayTicks == SecsPerDay * SecTicks

\* ---------------------------------------------------------------- optional
None == <<>>
Some(x) == <<x>>
IsSome(o) == o # None
Val(o) == o[1]

\* ------------------------------------------------------------------ config
\* chunk_days is read by the stream but is not declared by config_jsonschema:
\* the schema accepts any value for it, and its absence.
ChunkDaysValues == {None} \cup {Some(d) : d \in ((0 - 1)..MaxChunkDays)}

StartDateValues == {None} \cup {Some(t) : t \in 0..MaxStartTick}

\* limit is a StringType property
LimitValues == {None, Some("100")}

Configs ==
    [application_id : BOOLEAN, token : BOOLEAN,
     start_date : StartDateValues, chunk_days : ChunkDaysValues,
     limit : LimitValues]

\* TapAppmetrica.config_jsonschema: application_id and token are required,
\* start_date and limit optional; nothing else is constrained.
config_jsonschema(c) == c.application_id /\ c.token

\* ------------------------------------------------------------------- times
\* strftime("%Y-%m-%d %H:%M:%S"): the sub-second part is dropped.
strftime(t) == t - (t % SecTicks)

\* datetime.timedelta(days = d)
timedelta_days(d) == d * DayTicks

\* get_url_params: date_since of the page
date_since(page, c) == strftime(page)

date_until_one_day(page, c) == strftime(page + timedelta_days(1))

\* get_url_params: date_until of the page
date_until(page, c) == strftime(page + timedelta_days(Val(c.chunk_days)))

\* EventsStream.fields
events_fields ==
    <<"event_datetime", "event_json", "event_name", "event_receive_datetime",
      "event_receive_timestamp", "event_timestamp", "session_id",
      "installation_id", "appmetrica_device_id", "city", "connection_type",
      "country_iso_code", "device_ipv6", "device_locale",
      "device_manufacturer", "device_model", "device_type", "google_aid",
      "ios_ifa", "ios_ifv", "mcc", "mnc", "operator_name",
      "original_device_model", "os_name", "os_version", "profile_id",
      "windows_aid", "app_build_number", "app_package_name",
      "app_version_name", "application_id">>

\* InstallationsStream.fields
installations_fields ==
    <<"application_id", "click_datetime", "click_id", "click_ipv6",
      "click_timestamp", "click_url_parameters", "click_user_agent",
      "profile_id", "publisher_id", "publisher_name", "tracker_name",
      "tracking_id", "install_datetime", "install_ipv6",
      "install_receive_datetime", "install_receive_timestamp",
      "install_timestamp", "is_reattribution", "is_reinstallation",
      "match_type", "appmetrica_device_id", "city", "connection_type",
      "country_iso_code", "device_locale", "device_manufacturer",
      "device_model", "device_type", "google_aid", "ios_ifa", "ios_ifv",
      "mcc", "mnc", "operator_name", "os_name", "os_version", "windows_aid",
      "app_package_name", "app_version_name">>

fields(s) == IF s = "events" THEN events_fields ELSE installations_fields

\* ",".join(names)
RECURSIVE join(_)
join(names) ==
    IF names = <<>> THEN ""
    ELSE IF Len(names) = 1 THEN names[1]
    ELSE names[1] \o "," \o join(Tail(names))

\* Python values of the limit parameter: a str and a bool are never equal
Str(x) == [type |-> "str", repr |-> x]
Bool(b) == [type |-> "bool", repr |-> IF b THEN "True" ELSE "False"]

\* limit := self.config.get("limit") is not None
\* The comparison binds tighter than :=, so limit is bound to the bool; the
\* result is an optional only to say whether the if branch is taken.
walrus_limit(c) == IF c.limit # None THEN Some(Bool(TRUE)) ELSE None

\* get_url_params: the query parameters of one page, the dict as a function
\* of its keys
get_url_params(s, page, c) ==
    LET params == [application_id |-> c.application_id,
                   date_dimension |-> "receive",
                   date_since |-> date_since(page, c),
                   date_until |-> date_until(page, c),
                   fields |-> join(fields(s))]
        limit == walrus_limit(c)
    IN  IF limit # None
        THEN [application_id |-> params.application_id,
              date_dimension |-> params.date_dimension,
              date_since |-> params.date_since,
              date_until |-> params.date_until,
              limit |-> Val(limit),
              fields |-> params.fields]
        ELSE params

while_condition_inclusive(page, n) == page <= n

\* the loop test of request_records
while_condition(page, n) == page < n

\* ------------------------------------------------------------------- retry
backoff_max_tries == 50

backoff_wait == 120

Statuses == {200, 202, 401, 403, 429, 500}

extra_retry_statuses_without_202 == {429}

extra_retry_statuses_with_401 == {202, 401, 429}

\* [202] + RESTStream.extra_retry_statuses
extra_retry_statuses == {202, 429}

\* RESTStream.validate_response as request_records' decorated request uses it:
\* a status in extra_retry_statuses or a 5xx is retriable, another 4xx is fatal.
Retriable(s) == s \in extra_retry_statuses \/ (500 <= s /\ s <= 511)
Fatal(s) == ~Retriable(s) /\ 400 <= s /\ s < 500

\* --------------------------------------------------------------------- csv
\* A cell of a csv.DictReader row as obj.get(name) returns it: no such column
\* or a short row (None), "", a string pendulum cannot parse, or a timestamp.
Cell(k, t) == [kind |-> k, t |-> t]
MissingCell == Cell("missing", 0)
BadCells == {MissingCell, Cell("empty", 0), Cell("bad", 0)}

\* The timestamps a row of the export for [since, until) may carry: the first
\* and the last whole second of the window stand for all of them.
WindowSeconds(w) ==
    {t \in {w.date_since, w.date_until - SecTicks} :
        w.date_since <= t /\ t < w.date_until}

Row(e, i) == [event_receive_datetime |-> e, install_receive_datetime |-> i]

EventRows(w) ==
    {Row(e, MissingCell) : e \in BadCells \cup {Cell("time", t) : t \in WindowSeconds(w)}}

\* The rows csv.DictReader makes of a body: with the replication-key column
\* in the header line the rows of the export, without it rows whose
\* obj.get(key) is None.
DictReaderRows(has_key, w) ==
    IF has_key THEN EventRows(w) ELSE {Row(MissingCell, MissingCell)}

SeqsUpTo(S, n) == UNION {[1..k -> S] : k \in 0..n}

\* The rows a CSV body of either export may hold.
CsvCells == BadCells \cup {Cell("time", 0), Cell("time", SecTicks)}
CsvRows == {Row(e, i) : e \in CsvCells, i \in CsvCells}

\* bool(obj.get(key)): None and "" are falsy
Truthy(cell) == cell.kind \notin {"missing", "empty"}

\* pendulum.parse(date_string): a datetime, ParserError for a string that is
\* no date, TypeError for None.
pendulum_parse(cell) ==
    CASE cell.kind = "time" -> "ok"
      [] cell.kind = "missing" -> "TypeError"
      [] OTHER -> "ParserError"

\* is_valid_datetime: True when pendulum.parse succeeds, False when it raises
\* ParserError; any other exception is not caught ("raise").
is_valid_datetime(cell) ==
    CASE pendulum_parse(cell) = "ok" -> "True"
      [] pendulum_parse(cell) = "ParserError" -> "False"
      [] OTHER -> "raise"

replication_key(s) ==
    IF s = "events" THEN "event_receive_datetime" ELSE "install_receive_datetime"

keeps_row_unguarded(s, obj) == is_valid_datetime(obj[replication_key(s)])

\* the generator condition of EventsStream / InstallationsStream.parse_response:
\* obj.get(key) and is_valid_datetime(obj.get(key))
keeps_row(s, obj) ==
    IF ~Truthy(obj[replication_key(s)])
    THEN "False"
    ELSE is_valid_datetime(obj[replication_key(s)])

\* ------------------------------------------------------------ stream state
\* The stream's state as singer_sdk keeps it: the bookmark
\* (replication_key_value) and the progress marker of an unsorted stream.
NewState(b) == [bookmark |-> b, progress |-> None]

is_sorted_declared == TRUE

\* EventsStream does not declare is_sorted: the stream is treated as unsorted.
is_sorted == FALSE

\* increment_state, called by the record consumer for every record yielded:
\* an unsorted stream's progress marker keeps the greatest replication-key
\* value seen and leaves the bookmark alone; a sorted stream's bookmark
\* follows the records.
increment_state(st, t) ==
    IF is_sorted
    THEN [st EXCEPT !.bookmark = Some(t)]
    ELSE IF st.progress = None \/ t >= Val(st.progress)
         THEN [st EXCEPT !.progress = Some(t)]
         ELSE st

\* self.finalize_state_progress_markers(): the progress marker, when there is
\* one, becomes the bookmark.
finalize_state_progress_markers(st) ==
    IF IsSome(st.progress) THEN NewState(st.progress) ELSE st

\* get_starting_replication_key_value: the bookmark, else config start_date
get_starting_replication_key_value(st, c) ==
    IF IsSome(st.bookmark) THEN st.bookmark ELSE c.start_date

\* parse_response as a whole: the rows of the reader the condition keeps, in
\* the reader's order, up to the row at which the condition raises.
RECURSIVE generate(_, _, _)
generate(s, rows, acc) ==
    IF rows = <<>>
    THEN [records |-> acc, raised |-> FALSE]
    ELSE LET k == keeps_row(s, Head(rows)) IN
         IF k = "raise"
         THEN [records |-> acc, raised |-> TRUE]
         ELSE generate(s, Tail(rows), IF k = "True" THEN Append(acc, Head(rows)) ELSE acc)

parse_response(s, rows) == generate(s, rows, <<>>)

\* ------------------------------------------------------------------- state
VARIABLES
    config,     \* the tap's configuration
    stream,     \* the stream class whose parse_response runs
    pc,         \* where the tap is
    state,      \* the stream's in-memory state
    persisted,  \* the bookmark of the last STATE message written
    start,      \* the starting replication-key value of the run
    now,        \* utc_now() of the run
    page_date,  \* the window cursor of request_records
    requests,   \* the query parameters of the requests prepared in the run
    tries,      \* attempts made by the decorated request in progress
    slept,      \* seconds it waited between them
    status,     \* status of the last response
    nrows,      \* rows read from the response being parsed
    out,        \* records yielded from the response being parsed
    failure,    \* why the run aborted
    lastEnd,    \* date_until of the last window completed, in any run
    input,      \* rows of a CSV body handed to parse_response as a whole
    header_ok,  \* the body being parsed has the replication-key column
    body_len,   \* data rows of the body being parsed
    writes,     \* state writes made by request_records in the run
    attempts,   \* attempts made in the run, over all its requests (when traced)
    traced      \* whether attempts is kept

vars ==
    <<config, stream, pc, state, persisted, start, now, page_date, requests,
      tries, slept, status, nrows, out, failure, lastEnd, input,
      header_ok, body_len, writes, attempts, traced>>

\* what the steps outside a response leave alone
bodyVars == <<header_ok, body_len>>
countVars == <<writes, attempts, traced>>

runLocals == <<start, page_date, requests, tries, slept, status, nrows, out, failure>>

\* TapAppmetrica.discover_streams: the events stream only
discover_streams == {"events"}

Init ==
    /\ config \in Configs
    /\ stream \in discover_streams
    /\ pc = "init"
    /\ state = NewState(None)
    /\ persisted = None
    /\ start = 0
    /\ now = 0
    /\ page_date = 0
    /\ requests = <<>>
    /\ tries = 0
    /\ slept = 0
    /\ status = 0
    /\ nrows = 0
    /\ out = <<>>
    /\ failure = ""
    /\ lastEnd = None
    /\ input = <<>>
    /\ header_ok = TRUE
    /\ body_len = 0
    /\ writes = 0
    /\ attempts = 0
    /\ traced = FALSE

Abort(why) == pc' = "failed" /\ failure' = why

\* The tap validates its configuration against config_jsonschema at startup.
ValidateConfig ==
    /\ pc = "init"
    /\ pc' = IF config_jsonschema(config) THEN "idle" ELSE "rejected"
    /\ UNCHANGED <<config, stream, state, persisted, now, lastEnd, input, runLocals,
                   bodyVars, countVars>>

\* request_records up to the loop: the starting value is parsed, then now is
\* read once.  pendulum.parse(None) raises when there is no starting value.
StartRun ==
    /\ pc = "idle"
    /\ LET sv == get_starting_replication_key_value(state, config) IN
         IF sv = None
         THEN /\ Abort("start")
              /\ UNCHANGED <<now, start, page_date>>
         ELSE /\ \E n \in 0..MaxTime :
                    /\ n >= now
                    /\ IsSome(persisted) => n > Val(persisted)
                    /\ now' = n
              /\ start' = Val(sv)
              /\ page_date' = Val(sv)
              /\ pc' = "loop"
              /\ UNCHANGED failure
    /\ UNCHANGED <<config, stream, state, persisted, requests, tries, slept,
                   status, nrows, out, lastEnd, input, bodyVars, countVars>>

new_call_tries_carried(n) == n

\* Each call of decorated_request counts its attempts from zero, whatever
\* number n of attempts the earlier calls of the run made.
new_call_tries(n) == 0

\* while page_date < now: prepare_request(context, next_page_token=page_date).
\* self.config["chunk_days"] raises KeyError when the key is absent.
PrepareRequest ==
    /\ pc = "loop"
    /\ while_condition(page_date, now)
    /\ IF config.chunk_days = None
       THEN /\ Abort("config")
            /\ UNCHANGED <<requests, tries, slept>>
       ELSE /\ Len(requests) < MaxRequests
            /\ requests' = Append(requests, get_url_params(stream, page_date, config))
            /\ tries' = new_call_tries(attempts)
            /\ slept' = 0
            /\ pc' = "request"
            /\ UNCHANGED failure
    /\ UNCHANGED <<config, stream, state, persisted, start, now, page_date,
                   status, nrows, out, lastEnd, input, bodyVars, countVars>>

\* The loop test fails: the generator is exhausted.
ExitLoop ==
    /\ pc = "loop"
    /\ ~while_condition(page_date, now)
    /\ pc' = "done"
    /\ UNCHANGED <<config, stream, state, persisted, now, lastEnd, input, runLocals,
                   bodyVars, countVars>>

\* The count of a run's attempts is kept up to one more than max_tries:
\* attempts = AttemptsCap says the run made more than max_tries attempts.
AttemptsCap == backoff_max_tries + 1

GiveUp_one_early(n) == n + 1 >= backoff_max_tries

\* backoff.on_exception(..., max_tries=backoff_max_tries): the exception is
\* raised again once the number of attempts made reaches max_tries.
GiveUp(n) == n >= backoff_max_tries

\* decorated_request(prepared_request, context): one attempt, answered with
\* status s.  A retriable status is waited on and tried again inside the
\* decorator; a fatal one, or the last retriable one, raises; any other
\* returns the response to request_records, which starts to parse it (the
\* decorator's count of attempts ends with the call).  The body returned is a
\* CSV text of some number of data rows, whose header line has the
\* replication-key column or has not (another CSV, an error page).
Receive(s) ==
    /\ pc = "request"
    /\ IF Retriable(s)
       THEN IF GiveUp(tries + 1)
            THEN /\ Abort("retries")
                 /\ tries' = tries + 1
                 /\ status' = s
                 /\ UNCHANGED slept
            ELSE /\ tries' = tries + 1
                 /\ status' = s
                 /\ slept' = slept + backoff_wait
                 /\ UNCHANGED <<pc, failure>>
       ELSE /\ status' = s
            /\ IF Fatal(s)
               THEN /\ Abort("fatal")
                    /\ tries' = tries + 1
                    /\ UNCHANGED slept
               ELSE /\ pc' = "parse"
                    /\ tries' = 0
                    /\ slept' = 0
                    /\ UNCHANGED failure
    /\ IF Retriable(s) \/ Fatal(s)
       THEN header_ok' = TRUE /\ body_len' = 0
       ELSE header_ok' \in BOOLEAN /\ body_len' \in 0..MaxRows
    /\ attempts' = IF traced /\ attempts < AttemptsCap THEN attempts + 1 ELSE attempts
    /\ nrows' = 0
    /\ out' = <<>>
    /\ UNCHANGED <<config, stream, state, persisted, start, now, page_date,
                   requests, lastEnd, input, writes, traced>>

Attempt == \E s \in Statuses : Receive(s)

\* yield from self.parse_response(resp): the reader's next row, yielded when
\* the generator condition keeps it; the consumer of a yielded record
\* increments the stream state before it asks for the next one, and writes a
\* STATE message every STATE_MSG_FREQUENCY records.
ParseRow ==
    /\ pc = "parse"
    /\ nrows < body_len
    /\ nrows' = nrows + 1
    /\ \E obj \in DictReaderRows(header_ok, requests[Len(requests)]) :
         LET k == keeps_row(stream, obj) IN
         /\ IF k = "raise" THEN Abort("parse") ELSE UNCHANGED <<pc, failure>>
         /\ IF k = "True"
            THEN /\ out' = Append(out, obj)
                 /\ state' = increment_state(state, obj[replication_key(stream)].t)
                 /\ \E write \in BOOLEAN :
                       persisted' = IF write THEN state'.bookmark ELSE persisted
            ELSE UNCHANGED <<out, state, persisted>>
    /\ UNCHANGED <<config, stream, start, now, page_date,
                   requests, tries, slept, status, lastEnd, input, bodyVars, countVars>>

\* response.iter_lines raises while the body is read (the connection breaks).
IterLinesError ==
    /\ pc = "parse"
    /\ Abort("parse")
    /\ UNCHANGED <<config, stream, state, persisted, start, now, page_date,
                   requests, tries, slept, status, nrows, out, lastEnd, input,
                   bodyVars, countVars>>

exhausted_at_any_row(n, len) == TRUE

\* yield from returns when the generator has yielded its last record
exhausted(n, len) == n = len

\* The response is exhausted: finalize_state_progress_markers(),
\* _write_state_message(), page_date += timedelta(days=chunk_days).
FinishWindow ==
    /\ pc = "parse"
    /\ exhausted(nrows, body_len)
    /\ writes' = writes + 1
    /\ state' = finalize_state_progress_markers(state)
    /\ persisted' = state'.bookmark
    /\ page_date' = page_date + timedelta_days(Val(config.chunk_days))
    /\ lastEnd' = Some(requests[Len(requests)].date_until)
    /\ pc' = "loop"
    /\ UNCHANGED <<config, stream, start, now, requests, tries, slept, status,
                   nrows, out, failure, input, bodyVars, attempts, traced>>

\* The process ends; the next invocation of the tap loads the persisted state.
Restart ==
    /\ pc \in {"done", "failed"}
    /\ pc' = "idle"
    /\ state' = NewState(persisted)
    /\ start' = 0
    /\ page_date' = 0
    /\ requests' = <<>>
    /\ tries' = 0
    /\ slept' = 0
    /\ status' = 0
    /\ nrows' = 0
    /\ out' = <<>>
    /\ failure' = ""
    /\ header_ok' = TRUE
    /\ body_len' = 0
    /\ writes' = 0
    /\ attempts' = 0
    /\ UNCHANGED <<config, stream, persisted, now, lastEnd, input, traced>>

Next ==
    \/ ValidateConfig
    \/ StartRun
    \/ PrepareRequest
    \/ ExitLoop
    \/ Attempt
    \/ ParseRow
    \/ IterLinesError
    \/ FinishWindow
    \/ Restart

Spec == Init /\ [][Next]_vars

\* ---- the same program with the attempts of a run counted ----
InitRetry ==
    /\ config = [application_id |-> TRUE, token |-> TRUE,
                 start_date |-> Some(0), chunk_days |-> Some(1), limit |-> None]
    /\ stream \in discover_streams
    /\ pc = "init"
    /\ state = NewState(None)
    /\ persisted = None
    /\ start = 0
    /\ now = 0
    /\ page_date = 0
    /\ requests = <<>>
    /\ tries = 0
    /\ slept = 0
    /\ status = 0
    /\ nrows = 0
    /\ out = <<>>
    /\ failure = ""
    /\ lastEnd = None
    /\ input = <<>>
    /\ header_ok = TRUE
    /\ body_len = 0
    /\ writes = 0
    /\ attempts = 0
    /\ traced = TRUE

SpecRetry == InitRetry /\ [][Next]_vars

\* ------------------------------------------------- parse_response alone
\* A CSV body of the events or the installations export is handed to the
\* stream's parse_response and read to its end.
InitParse ==
    /\ config = [application_id |-> TRUE, token |-> TRUE,
                 start_date |-> None, chunk_days |-> None, limit |-> None]
    /\ stream \in {"events", "installations"}
    /\ input \in SeqsUpTo(CsvRows, MaxRows)
    /\ pc = "csv"
    /\ state = NewState(None)
    /\ persisted = None
    /\ start = 0
    /\ now = 0
    /\ page_date = 0
    /\ requests = <<>>
    /\ tries = 0
    /\ slept = 0
    /\ status = 0
    /\ nrows = 0
    /\ out = <<>>
    /\ failure = ""
    /\ lastEnd = None
    /\ header_ok = TRUE
    /\ body_len = 0
    /\ writes = 0
    /\ attempts = 0
    /\ traced = FALSE

ParseResponse ==
    /\ pc = "csv"
    /\ LET r == parse_response(stream, input) IN
         /\ out' = r.records
         /\ IF r.raised
            THEN Abort("parse")
            ELSE pc' = "parsed" /\ UNCHANGED failure
    /\ nrows' = Len(input)
    /\ UNCHANGED <<config, stream, state, persisted, start, now, page_date,
                   requests, tries, slept, status, lastEnd, input, bodyVars, countVars>>

NextParse == ParseResponse

SpecParse == InitParse /\ [][NextParse]_vars

\* ---- the aggregate install_devices stream: one response to its records ----

\* dimension names (dates of the day grouping) and metric values of the
\* stat API's rows
DimensionNames == {"2024-01-01", "2024-01-02"}
MetricValues == {0, 42}

\* the lists of one or two elements of S
ListsOf(S) == {<<a>> : a \in S} \cup {<<a, b>> : a \in S, b \in S}

\* a row of the response's data array
StatRows ==
    [dimensions : ListsOf([name : DimensionNames]), metrics : ListsOf(MetricValues)]

\* response.json() of the stat API
StatResponses == [data : SeqsUpTo(StatRows, MaxRows)]

\* extract_jsonpath("$.data[*]", input=response.json())
stat_parse_response(json) == json.data

post_process_skips_zero(row) ==
    IF row.metrics[1] = 0
    THEN None
    ELSE Some([date |-> row.dimensions[1].name, install_devices |-> row.metrics[1]])

\* installDevicesStream.post_process: Python's index 0 is index 1 here
post_process(row) ==
    Some([date |-> row.dimensions[1].name, install_devices |-> row.metrics[1]])

\* The sync loop over the rows of parse_response: a row whose post_process
\* returns None is skipped, any other result is emitted.
RECURSIVE stat_records(_)
stat_records(rows) ==
    IF rows = <<>>
    THEN <<>>
    ELSE LET rec == post_process(Head(rows))
         IN  (IF rec = None THEN <<>> ELSE <<Val(rec)>>) \o stat_records(Tail(rows))

InitStat ==
    /\ pc = "stat"
    /\ stream = "install_devices"
    /\ input \in StatResponses
    /\ config = [application_id |-> TRUE, token |-> TRUE,
                 start_date |-> Some(0), chunk_days |-> Some(1), limit |-> None]
    /\ state = NewState(None)
    /\ persisted = None
    /\ start = 0
    /\ now = 0
    /\ page_date = 0
    /\ requests = <<>>
    /\ tries = 0
    /\ slept = 0
    /\ status = 200
    /\ nrows = 0
    /\ out = <<>>
    /\ failure = ""
    /\ lastEnd = None
    /\ header_ok = TRUE
    /\ body_len = 0
    /\ writes = 0
    /\ attempts = 0
    /\ traced = FALSE

\* One response of the install_devices stream is parsed and post-processed.
StatSync ==
    /\ pc = "stat"
    /\ out' = stat_records(stat_parse_response(input))
    /\ nrows' = Len(input.data)
    /\ pc' = "done"
    /\ UNCHANGED <<config, stream, state, persisted, start, now, page_date,
                   requests, tries, slept, status, failure, lastEnd, input,
                   bodyVars, countVars>>

NextStat == StatSync

SpecStat == InitStat /\ [][NextStat]_vars

\* ---- get_url_params alone: the query parameters of any page ----
InitParams ==
    /\ pc = "params"
    /\ stream \in {"events", "installations"}
    /\ config \in {c \in Configs : config_jsonschema(c) /\ c.chunk_days # None}
    /\ page_date \in 0..MaxTime
    /\ state = NewState(None)
    /\ persisted = None
    /\ start = 0
    /\ now = 0
    /\ requests = <<>>
    /\ tries = 0
    /\ slept = 0
    /\ status = 0
    /\ nrows = 0
    /\ out = <<>>
    /\ failure = ""
    /\ lastEnd = None
    /\ input = <<>>
    /\ header_ok = TRUE
    /\ body_len = 0
    /\ writes = 0
    /\ attempts = 0
    /\ traced = FALSE

\* prepare_request asks get_url_params for the parameters of the page.
BuildParams ==
    /\ pc = "params"
    /\ requests' = <<get_url_params(stream, page_date, config)>>
    /\ pc' = "built"
    /\ UNCHANGED <<config, stream, state, persisted, start, now, page_date,
                   tries, slept, status, nrows, out, failure, lastEnd, input,
                   bodyVars, countVars>>

NextParams == BuildParams

SpecParams == InitParams /\ [][NextParams]_vars



\* ------------------------------------------------------------------ claims
ChunkPositive == IsSome(config.chunk_days) /\ Val(config.chunk_days) > 0
ChunkNonPositive == IsSome(config.chunk_days) /\ Val(config.chunk_days) <= 0
Width == timedelta_days(Val(config.chunk_days))
CeilDiv(a, b) == (a + b - 1) \div b
Last(q) == q[Len(q)]
Contiguous(q) == \A i \in 1..(Len(q) - 1) : q[i].date_until = q[i + 1].date_since

C2_PersistedCursorIsWindowEnd ==
    (ChunkPositive /\ Len(requests) >= 1) =>
        /\ pc = "loop" => persisted = Some(Last(requests).date_until)
        /\ pc = "done" => persisted = Some(start + CeilDiv(now - start, Width) * Width)

\* C3: a failed request or a failed parse leaves the persisted cursor as the
\* last completed window wrote it, aborts the run, and no later window is
\* requested: the persisted cursor changes only in the step that completes a
\* window, a fatal status or the last retriable one ends the run, and a
\* failed run prepares no request.
C3_FailureKeepsPersistedState ==
    [][/\ (pc \in {"request", "parse"} /\ pc' # "loop") => persisted' = persisted
       /\ (pc = "request" /\ tries' = tries + 1
             /\ (Fatal(status') \/ (Retriable(status') /\ tries' = backoff_max_tries)))
            => pc' = "failed"
       /\ (pc \in {"request", "parse"} /\ pc' = "failed") =>
            /\ requests' = requests
            /\ page_date' = page_date
       /\ pc = "failed" =>
            /\ persisted' = persisted
            /\ pc' \in {"failed", "idle"}
            /\ Len(requests') <= Len(requests)]_vars

\* C3 witness: the parse of a second window fails after a record was yielded;
\* the progress marker is ahead of the persisted cursor.
C3_Witness ==
    /\ pc = "failed" /\ failure = "parse"
    /\ Len(requests) >= 2 /\ Len(out) >= 1
    /\ IsSome(state.progress) /\ state.progress # persisted

\* C4: with chunk_days > 0 a request is only made while the cursor is before
\* now, and a finished run has made exactly ceil((now - start) / chunk_days)
\* requests, none when start >= now.
C4_RequestCountIsCeiling ==
    ChunkPositive =>
        /\ pc \in {"request", "parse"} => page_date < now
        /\ (pc = "loop" /\ page_date < now) => Len(requests) < MaxRequests
        /\ pc = "done" =>
             Len(requests) = IF start >= now THEN 0 ELSE CeilDiv(now - start, Width)

\* C4 witness: start on day 0, chunk_days 1, now the start of day 2: exactly
\* the two windows [day 0, day 1) and [day 1, day 2).
C4_Witness ==
    /\ pc = "done" /\ config.chunk_days = Some(1)
    /\ start = 0 /\ now = 2 * DayTicks
    /\ Len(requests) = 2
    /\ requests[1].date_since = 0 /\ requests[1].date_until = DayTicks
    /\ requests[2].date_since = DayTicks /\ requests[2].date_until = 2 * DayTicks

\* C5 as claimed: the first window of a run that starts from the persisted
\* cursor begins at or after the end of the last window completed before.
C5_NextRunStartsAtLastWindowEnd ==
    (ChunkPositive /\ pc = "request" /\ Len(requests) = 1 /\ IsSome(lastEnd)) =>
        requests[1].date_since >= Val(lastEnd)

\* C6: a retriable status is answered by another attempt at the same request
\* after a wait of 120 s, up to backoff_max_tries attempts; when all of them
\* are answered so the run aborts at that window.
C6_RetriableStatusRetriedToTheLimit ==
    /\ pc = "request" =>
         /\ tries < backoff_max_tries
         /\ slept = backoff_wait * tries
         /\ tries > 0 => Retriable(status)
    /\ (pc = "failed" /\ Retriable(status)) => failure = "retries"
    /\ failure = "retries" =>
         /\ pc = "failed"
         /\ Retriable(status)
         /\ tries = 50
         /\ slept = 120 * (tries - 1)
         /\ strftime(page_date) = Last(requests).date_since

\* C6 witness: the fiftieth attempt is answered 202 and the run aborts.
C6_Witness == pc = "failed" /\ failure = "retries" /\ status = 202 /\ tries = 50

\* C7: a 202 response is never parsed: it yields no record and leaves the
\* window cursor and the persisted state where they were; only a response
\* that is neither retriable nor fatal is parsed.
C7_Status202IsNeverSuccess ==
    /\ status = 202 =>
         /\ pc \in {"request", "failed"}
         /\ out = <<>> /\ nrows = 0
         /\ state.progress = None
         /\ persisted = state.bookmark
         /\ strftime(page_date) = Last(requests).date_since
    /\ pc = "parse" => ~Retriable(status) /\ ~Fatal(status)

\* C7 witness: the request of a second window was answered 202 and is pending.
C7_Witness == status = 202 /\ pc = "request" /\ Len(requests) = 2 /\ tries >= 1

C10_NonPositiveChunkDaysRejected ==
    ChunkNonPositive => (requests = <<>> /\ pc \notin {"request", "parse"})

\* C9: parse_response of the events and of the installations stream yields
\* exactly the rows of the reader whose replication-key cell is present, not
\* empty and a date/time, in the reader's order, and raises nothing for the
\* other rows.
C9_ParseKeepsExactlyValidRows ==
    pc # "csv" =>
        /\ pc = "parsed"
        /\ out = SelectSeq(input,
                   LAMBDA obj :
                     IF stream = "events"
                     THEN obj.event_receive_datetime.kind = "time"
                     ELSE obj.install_receive_datetime.kind = "time")

\* C9 witness: one data row with an empty event_receive_datetime, parsed by
\* the events stream to no record and no error.
C9_Witness ==
    /\ pc = "parsed" /\ stream = "events"
    /\ input = <<Row(Cell("empty", 0), MissingCell)>>
    /\ out = <<>>

OptLeq(a, b) == a = None \/ (b # None /\ Val(a) <= Val(b))
InRun == pc \in {"loop", "request", "parse"}

\* C11 as claimed: within a run of request_records neither the window cursor
\* page_date nor the persisted sync-state value ever decreases.
C11_CursorNeverDecreases ==
    [][InRun => (page_date' >= page_date /\ OptLeq(persisted, persisted'))]_vars

\* C11 with chunk_days > 0 (the case C10's missing check leaves): the same
\* statement, for comparison.
C11_CursorNeverDecreasesChunkPositive ==
    [][(InRun /\ ChunkPositive) =>
         (page_date' >= page_date /\ OptLeq(persisted, persisted'))]_vars

\* C13 as claimed: with no persisted cursor and no configured start_date the
\* run does not fail at its start: it enters the window loop.
C13_NoStartingValueDoesNotFail ==
    (config.start_date = None /\ state.bookmark = None) => failure # "start"

\* C17 as claimed (first half): the date_since values of the successive
\* requests of a run are strictly increasing.
C17_DateSinceStrictlyIncreasing ==
    \A i \in 1..(Len(requests) - 1) :
        requests[i].date_since < requests[i + 1].date_since

\* C17 with chunk_days > 0 (the case C10's missing check leaves): the same
\* statement, for comparison.
C17_DateSinceStrictlyIncreasingChunkPositive ==
    ChunkPositive => C17_DateSinceStrictlyIncreasing

\* C12 as claimed: a body of a successful response that lacks the
\* replication-key column is fatal - once data rows of such a body have been
\* read the run is still reading it or has failed; the window is never
\* completed and the cursor is never moved past it.
C12_UnparseableBodyIsFatal ==
    (~header_ok /\ nrows >= 1) => pc \in {"parse", "failed"}

\* C14: request_records finalizes the progress markers and writes state once
\* per window, after the last record of the window's response was yielded:
\* while window k is being requested or read k - 1 writes were made, and
\* once it is completed k writes were made and every row of its body was read.
C14_StateWrittenOnceAfterEachWindow ==
    /\ pc \in {"request", "parse"} => writes = Len(requests) - 1
    /\ (pc = "failed" /\ failure \in {"retries", "fatal", "parse"}) =>
            writes = Len(requests) - 1
    /\ pc \in {"loop", "done"} =>
            /\ writes = Len(requests)
            /\ requests # <<>> => nrows = body_len

\* C14 happens: two windows were completed, the second with records emitted.
C14_Witness ==
    /\ pc = "loop"
    /\ writes = 2
    /\ body_len >= 1
    /\ Len(out) >= 1

\* C15: the install_devices stream emits exactly one record for every row of
\* the response's data array, in order, and the record of a row is
\* {date: row.dimensions[0].name, install_devices: row.metrics[0]}.
C15_PostProcessMapsEveryRow ==
    (stream = "install_devices" /\ pc = "done") =>
        /\ Len(out) = Len(input.data)
        /\ \A i \in 1..Len(out) :
               out[i] = [date |-> input.data[i].dimensions[1].name,
                         install_devices |-> input.data[i].metrics[1]]

\* C15 happens: the response {"data": [{"dimensions": [{"name":
\* "2024-01-01"}], "metrics": [42]}]} was processed to one record.
C15_Witness ==
    /\ stream = "install_devices"
    /\ pc = "done"
    /\ input = [data |-> <<[dimensions |-> <<[name |-> "2024-01-01"]>>,
                           metrics |-> <<42>>]>>]
    /\ out = <<[date |-> "2024-01-01", install_devices |-> 42]>>

\* C16 as claimed: the parameters of a page carry the optional limit
\* faithfully - with a limit in the config params["limit"] is the configured
\* value, without one params has no "limit" key - and application_id,
\* date_since, date_until and fields are always present.
C16_LimitCarriedFaithfully ==
    pc = "built" =>
        LET params == requests[1]
        IN  /\ config.limit # None =>
                 /\ "limit" \in DOMAIN params
                 /\ params.limit = Str(Val(config.limit))
            /\ config.limit = None => "limit" \notin DOMAIN params
            /\ {"application_id", "date_since", "date_until", "fields"}
                   \subseteq DOMAIN params

\* C18: the retry budget is per window - the attempts of a request are
\* counted from zero whatever the earlier windows of the run used (one wait
\* of backoff_wait per attempt counted), and a request fails for its retries
\* only when it made backoff_max_tries attempts itself, however many attempts
\* the run made before.
C18_RetryBudgetIsPerWindow ==
    traced =>
        /\ pc = "request" =>
               /\ tries < backoff_max_tries
               /\ slept = tries * backoff_wait
        /\ failure = "retries" =>
               /\ tries = backoff_max_tries
               /\ slept = (backoff_max_tries - 1) * backoff_wait

\* C18 happens: the response of the second window is being read after more
\* than backoff_max_tries attempts in the run, and the run has not failed.
C18_Witness ==
    /\ traced
    /\ pc = "parse"
    /\ Len(requests) = 2
    /\ attempts > backoff_max_tries
    /\ failure = ""

=============================================================================
